---- MODULE Spec2Model ----
(***************************************************************************)
(* Model of the Civitatis schedule-extraction engine (src/scraper.py), of   *)
(* the web application that stores its results (src/app.py) and of the     *)
(* background run (src/scheduler.py).                                      *)
(*                                                                         *)
(* One invocation of compare_all_schedules is a sequential process whose   *)
(* position is pc.  Each action is one statement group of the source that  *)
(* operates on the live page; the page's answers (element present or not,  *)
(* attribute values, an operation raising) are inputs drawn with \E.       *)
(***************************************************************************)
EXTENDS Integers, Sequences, FiniteSets, TLC

VARIABLES
    pc,           \* position of the invocation in compare_all_schedules
    playwright,   \* the driver started by `async with async_playwright()`
    browser,      \* the browser launched by p.chromium.launch
    exc,          \* the exception in flight ("none" when there is none)
    pending,      \* the value the try statement is about to return
    outcome,      \* how the invocation ended: "none", "returned", "raised"
    result,       \* the list returned to the caller
    raised,       \* the exception raised to the caller
    caught,       \* the fault caught by `except Exception` at line 386
    closeRaised,  \* browser.close() raised in the finally clause (history)
    script,       \* what each of two concurrent invocations meets (SpecPair only)
    swallowed,    \* a page operation raised and a handler inside took it (history)
    escapedAt,    \* the page operation whose fault reached line 386 (history)
    found,        \* number of candidates the enumeration discovered (history)
    ret,          \* the list get_schedules_and_operators returned
    chatIdx,      \* index in chat_close_selectors
    sdRet,        \* outcome of select_date_on_calendar
    displayed,    \* <<year, month>> the calendar widget displays
    monthsDiff,   \* months_diff of select_date_on_calendar
    navLeft,      \* iterations left of the pagination loop
    navClicks,    \* pagination clicks performed, as <<next, previous>>
    cal,          \* <<cal_year, cal_month>> read off the first day cell
    cells,        \* the day cells the locators of select_date_on_calendar resolve to
    scanIdx,      \* i of the fallback scan
    clicked,      \* the day cell clicked by select_date_on_calendar
    dom,          \* the booking widget of the live page
    schedules,    \* the candidates discovered by the enumeration
    times,        \* what re.findall found in the form's text (line 197)
    tier,         \* the enumeration tier that produced schedules
    provider_names, \* the local directory built at line 207
    slotIdx,      \* position of the slot loop in schedules
    radio_clicked,  \* local flag of the slot loop
    attempt,      \* controls used to activate the current slot (history)
    provider_id,  \* provider id read for the current slot
    operator,     \* local `operator` of get_schedules_and_operators
    results,      \* results collected by get_schedules_and_operators
    reads,        \* what the page showed when each slot was read (history)
    did,          \* kinds of page operations performed after select_date (history)
    priceEls,     \* text of the element each price selector finds (extract_price)
    extracted,    \* what extract_price returns
    schedule_rows,  \* the committed rows of the Schedule table
    scrape_logs,  \* the committed rows of the ScrapeLog table, by id
    run,          \* the threads started by /api/scrape/manual: locals of run_daily_scrape
    api           \* the request served by /api/scrape: locals of scrape()

\* The state of extract_price applied to a page of its own.
extractor == <<priceEls, extracted>>

\* The state of the web application and of its background runs.
app == <<schedule_rows, scrape_logs, run, api>>

\* Variables compare_all_schedules does not use.
aside == <<extractor, app>>

vars == <<pc, playwright, browser, exc, pending, outcome, result, raised, caught,
          closeRaised, script,
          swallowed, escapedAt, found, ret, chatIdx, sdRet, displayed, monthsDiff,
          navLeft, navClicks, cal,
          cells, scanIdx, clicked, dom, schedules, times, tier, provider_names, slotIdx,
          radio_clicked, attempt, provider_id, operator, results, reads, did, aside>>

-----------------------------------------------------------------------------
(* Values *)

\* Python's None, for the fields that hold a piece of text or None.  A piece
\* of text built by an f-string or a concatenation is the sequence of its parts.
None == <<"None">>

\* Exceptions a page operation or a browser operation can raise.
Faults == {"TimeoutError", "TargetClosedError"}

\* Slot times the booking widget can offer.
Times == {"09:00", "11:30"}

\* Lexicographic order of the time strings (Python's sorted on str).
TimeRank(t) == IF t = "09:00" THEN 1 ELSE 2

\* Bound on the number of entries of each list of the booking widget.
MaxSlots == 2

\* Bound on the number of day cells of the calendar.
MaxCells == 2

\* Bound on the distance, in months, between the displayed and the target month.
MaxMonths == 2

SeqsUpTo(S, n) == UNION {[1..k -> S] : k \in 0..n}

-----------------------------------------------------------------------------
(* Price Extractor: the regular expressions of extract_price, on a text as   *)
(* the sequence of its characters.                                           *)

Digits == {"0", "1", "2", "3", "5", "8"}
IsDigit(c) == c \in Digits
IsSep(c) == c \in {".", ","}
IsSpace(c) == c = " "

\* str.strip()
RECURSIVE LStrip(_)
LStrip(t) == IF t # <<>> /\ IsSpace(Head(t)) THEN LStrip(Tail(t)) ELSE t
RECURSIVE RStrip(_)
RStrip(t) ==
    IF t # <<>> /\ IsSpace(t[Len(t)]) THEN RStrip(SubSeq(t, 1, Len(t) - 1)) ELSE t
Strip(t) == LStrip(RStrip(t))

\* Length of the longest run of characters satisfying the class, from position i.
RECURSIVE DigitRun(_, _)
DigitRun(t, i) == IF i <= Len(t) /\ IsDigit(t[i]) THEN 1 + DigitRun(t, i + 1) ELSE 0
RECURSIVE SpaceRun(_, _)
SpaceRun(t, i) == IF i <= Len(t) /\ IsSpace(t[i]) THEN 1 + SpaceRun(t, i + 1) ELSE 0

\* The ways (\d+[.,]?\d*) can match at position i, as <<a, s, b>>: a digits, s
\* separators (0 or 1), b digits.
NumberShapes(t, i) ==
    UNION {UNION {{<<a, s, b>> : b \in 0..DigitRun(t, i + a + s)} :
                    s \in IF i + a <= Len(t) /\ IsSep(t[i + a]) THEN {0, 1} ELSE {0}} :
             a \in 1..DigitRun(t, i)}

\* Backtracking order of the greedy quantifiers: more digits first, then the
\* separator taken, then more trailing digits.
Prefer(x, y) ==
    \/ x[1] > y[1]
    \/ x[1] = y[1] /\ x[2] > y[2]
    \/ x[1] = y[1] /\ x[2] = y[2] /\ x[3] >= y[3]

Best(S) == CHOOSE x \in S : \A y \in S : Prefer(x, y)

\* The leftmost position of S: re.search scans the text from the left.
Leftmost(S) == CHOOSE j \in S : \A k \in S : j <= k

DigitStarts(t) == {i \in 1..Len(t) : IsDigit(t[i])}

\* re.search(r'(\d+[.,]?\d*)\s*€', text): group 1, or None.
EuroShapes(t, i) ==
    {x \in NumberShapes(t, i) :
        LET e == i + x[1] + x[2] + x[3]
            w == SpaceRun(t, e)
        IN  e + w <= Len(t) /\ t[e + w] = "€"}

SearchEuro(t) ==
    LET starts == {i \in DigitStarts(t) : EuroShapes(t, i) # {}}
    IN  IF starts = {} THEN None
        ELSE LET i == Leftmost(starts)
                 x == Best(EuroShapes(t, i))
             IN  SubSeq(t, i, i + x[1] + x[2] + x[3] - 1)

\* re.search(r'(\d+[.,]\d{2})', text): group 1, or None.
DecimalShapes(t, i) ==
    {a \in 1..DigitRun(t, i) :
        /\ i + a <= Len(t) /\ IsSep(t[i + a])
        /\ DigitRun(t, i + a + 1) >= 2}

SearchDecimal(t) ==
    LET starts == {i \in DigitStarts(t) : DecimalShapes(t, i) # {}}
    IN  IF starts = {} THEN None
        ELSE LET i == Leftmost(starts)
                 a == CHOOSE x \in DecimalShapes(t, i) :
                          \A y \in DecimalShapes(t, i) : x >= y
             IN  SubSeq(t, i, i + a + 2)

\* re.search(r'(\d+[.,]?\d*)\s*€?', price_js): group 1, or None.
SearchLoose(t) ==
    LET starts == DigitStarts(t)
    IN  IF starts = {} THEN None
        ELSE LET i == Leftmost(starts)
                 x == Best(NumberShapes(t, i))
             IN  SubSeq(t, i, i + x[1] + x[2] + x[3] - 1)

\* price_match.group(1) + " €"
WithEuro(m) == m \o <<" ", "€">>

-----------------------------------------------------------------------------
(* The booking widget of the live page *)

\* An <option> of #horaActividad: its value and its data-quota attribute.
Options ==
    {[value |-> "", quota |-> ""], [value |-> "09:00", quota |-> ""],
     [value |-> "11:30", quota |-> "2"], [value |-> "11:30", quota |-> " "]}

\* The first <option> of the select: the empty placeholder, or a slot.
FirstOptions == {[value |-> "", quota |-> ""], [value |-> "09:00", quota |-> ""]}

\* The value attribute of an input[name="horaActividad-radios"].
RadioValues == Times \cup {""}

\* The widgets the page can render once a date is selected: the select (with
\* its options, the first one included), the radio group, and whether the
\* #idProveedor field exists.  No slot is selected yet.
Doms ==
    {[select |-> s, options |-> o, radios |-> r, provider |-> p, active |-> "none"] :
        s \in {TRUE}, p \in BOOLEAN, r \in SeqsUpTo(RadioValues, MaxSlots),
        o \in {<<>>} \cup {<<f>> \o rest : f \in FirstOptions,
                                          rest \in SeqsUpTo(Options, MaxSlots)}}
    \cup
    {[select |-> FALSE, options |-> <<>>, radios |-> r, provider |-> p,
      active |-> "none"] : p \in BOOLEAN, r \in SeqsUpTo(RadioValues, MaxSlots)}

\* The page's own script: the provider it assigns to the selected slot, and
\* the price it displays for it.
ProviderOf(active) ==
    CASE active = "09:00" -> "36417"
      [] active = "11:30" -> "99999"
      [] OTHER -> ""

PriceTextOf(active) ==
    CASE active = "09:00" -> <<"2", "5", ",", "0", "0", " ", "€">>
      [] active = "11:30" -> <<"T", "o", "t", "a", "l", ":", " ", "1", "8", ".", "5", "0">>
      [] OTHER -> <<"D", "e", "s", "d", "e", " ", "1", "8">>

-----------------------------------------------------------------------------
(* extract_price *)

price_selectors ==
    <<"#tPrecioSpan0", ".m-activity-price__top .a-text--price--big",
      ".a-text--price--big", ".pax-price", "[class*=price-final]", ".total-price",
      "#precioTotal", ".booking-price">>

\* Lines 345-346: the booking form total the script in the page falls back to.
price_total == ".m-activity-price__total"

\* The selectors either path of extract_price queries.
PriceQueries == {price_selectors[i] : i \in 1..Len(price_selectors)} \cup {price_total}

\* No element matches the selector.
Absent == <<"(absent)">>

\* The elements of the page the price selectors find: the adult price of the
\* booking form shows the price of the selected slot.
PriceElements(d) ==
    [sel \in PriceQueries |->
        IF sel = "#tPrecioSpan0" THEN PriceTextOf(d.active) ELSE Absent]

\* Mutant of PriceOfText: only the expression with the currency symbol.
PriceOfTextEuroOnly(text) ==
    LET euro == SearchEuro(Strip(text))
    IN  IF euro # None THEN WithEuro(euro) ELSE None

\* Lines 327-336: the two expressions applied to one element's text.
PriceOfText(text) ==
    LET t == Strip(text)
        euro == SearchEuro(t)
        decimal == SearchDecimal(t)
    IN  IF euro # None THEN WithEuro(euro)
        ELSE IF decimal # None THEN WithEuro(decimal)
        ELSE None

\* Lines 324-336: the loop over price_selectors, from selector i on.
RECURSIVE PriceFromSelectors(_, _)
PriceFromSelectors(els, i) ==
    IF i > Len(price_selectors) THEN None
    ELSE LET text == els[price_selectors[i]]
             price == PriceOfText(text)
         IN  IF text # Absent /\ price # None THEN price
             ELSE PriceFromSelectors(els, i + 1)

\* Lines 340-350: what the script evaluated in the page returns.
PriceJs(els) ==
    IF els["#tPrecioSpan0"] # Absent THEN els["#tPrecioSpan0"]
    ELSE IF els[price_total] # Absent THEN els[price_total]
    ELSE None

\* Lines 351-354.
PriceOfJs(price_js) ==
    LET loose == SearchLoose(price_js)
    IN  IF price_js # None /\ price_js # <<>> /\ loose # None
        THEN WithEuro(loose)
        ELSE None

\* extract_price(page), when no page operation raises; jsRaises tells whether
\* page.evaluate raised (handled at line 355).
ExtractPrice(els, jsRaises) ==
    LET price == PriceFromSelectors(els, 1)
    IN  IF price # None THEN price
        ELSE IF jsRaises THEN None
        ELSE PriceOfJs(PriceJs(els))

-----------------------------------------------------------------------------
(* State *)

invocation == <<playwright, browser, pending, outcome, result, raised, caught,
               closeRaised, script>>
session == <<invocation, aside>>
history == <<swallowed, escapedAt, found, did>>
calendar == <<displayed, monthsDiff, navLeft, navClicks, cal, cells, scanIdx,
              clicked>>
frame == <<dom, schedules, times, tier, provider_names, slotIdx, radio_clicked, attempt,
           provider_id, operator, results, reads>>

\* No control was used yet to activate the current slot.
Untried == [radio |-> "untried", select |-> FALSE]

\* The directory before line 207 has built it.
Unset == [none \in {"none"} |-> <<"unset">>]

\* The booking widget before the page has rendered it.
NoDom == [select |-> FALSE, options |-> <<>>, radios |-> <<>>,
          provider |-> FALSE, active |-> "none"]

\* The calendar before select_date_on_calendar has looked at it.
InitCalendar ==
    /\ displayed = <<0, 0>>
    /\ monthsDiff = 0
    /\ navLeft = 0
    /\ navClicks = <<0, 0>>
    /\ cal = <<0, 0>>
    /\ cells = <<>>
    /\ scanIdx = 1
    /\ clicked = <<>>

\* The calendar is not looked at any more.
ResetCalendar ==
    /\ displayed' = <<0, 0>>
    /\ monthsDiff' = 0
    /\ navLeft' = 0
    /\ navClicks' = <<0, 0>>
    /\ cal' = <<0, 0>>
    /\ cells' = <<>>
    /\ scanIdx' = 1
    /\ clicked' = <<>>

\* The locals of get_schedules_and_operators before it has set them.
InitFrame ==
    /\ dom = NoDom
    /\ schedules = <<>>
    /\ times = <<>>
    /\ tier = "none"
    /\ provider_names = Unset
    /\ slotIdx = 1
    /\ radio_clicked = FALSE
    /\ attempt = Untried
    /\ provider_id = ""
    /\ operator = <<>>
    /\ results = <<>>
    /\ reads = <<>>

\* The locals of get_schedules_and_operators are gone.
ResetFrame ==
    /\ dom' = NoDom
    /\ schedules' = <<>>
    /\ times' = <<>>
    /\ tier' = "none"
    /\ provider_names' = Unset
    /\ slotIdx' = 1
    /\ radio_clicked' = FALSE
    /\ attempt' = Untried
    /\ provider_id' = ""
    /\ operator' = <<>>
    /\ results' = <<>>
    /\ reads' = <<>>

\* get_schedules_and_operators returns: its locals are gone and the page is
\* not operated on again.  What it discovered, read and collected is kept as
\* history.
Returns ==
    /\ pc' = "try_return"
    /\ dom' = NoDom
    /\ provider_names' = Unset
    /\ slotIdx' = 1
    /\ radio_clicked' = FALSE
    /\ attempt' = Untried
    /\ provider_id' = ""

\* extract_price has not been applied.
NoExtraction ==
    /\ priceEls = <<>>
    /\ extracted = None

\* The web application is not running.
NoApp ==
    /\ schedule_rows = {}
    /\ scrape_logs = <<>>
    /\ run = <<>>
    /\ api = <<>>

InitAside == NoExtraction /\ NoApp

\* No invocation of compare_all_schedules has started.
NoInvocation ==
    /\ playwright = "unstarted"
    /\ browser = "none"
    /\ exc = "none"
    /\ pending = <<>>
    /\ outcome = "none"
    /\ result = <<>>
    /\ raised = "none"
    /\ caught = "none"
    /\ closeRaised = FALSE
    /\ script = <<>>
    /\ swallowed = FALSE
    /\ escapedAt = "none"
    /\ found = 0
    /\ did = {}
    /\ ret = <<>>
    /\ chatIdx = 1
    /\ sdRet = "none"
    /\ InitCalendar
    /\ InitFrame

Init ==
    /\ pc = "start"
    /\ NoInvocation
    /\ InitAside

-----------------------------------------------------------------------------
(* compare_all_schedules: the session *)

\* A sentinel result: {"time": "N/A", "operator": ..., "price": ...}
Sentinel(op, price) == [time |-> "N/A", operator |-> op, price |-> price]

\* Positions inside select_date_on_calendar.
InSelectDate == pc \in {"sd_wait", "sd_first_day", "sd_paginate", "sd_fast", "sd_scan"}

\* A page operation of get_schedules_and_operators (or of a function it
\* calls) raises and no handler inside takes it: the frames are unwound,
\* their locals are gone, and control reaches `except Exception` at line 386.
\* The page is not operated on again.
EscapesAt(f, site) ==
    /\ exc' = f
    /\ pc' = "except"
    /\ escapedAt' = site
    /\ sdRet' = IF InSelectDate THEN "raised" ELSE sdRet
    /\ chatIdx' = 1
    /\ ResetCalendar
    /\ ResetFrame
    /\ UNCHANGED <<session, swallowed, found, did, ret>>

\* The same, for an action that is one page operation.
Escapes(f) == EscapesAt(f, pc)

\* async with async_playwright() as p:
EnterWith ==
    /\ pc = "start"
    /\ playwright' = "started"
    /\ pc' = "launch"
    /\ UNCHANGED <<browser, pending, outcome, result, raised, caught, closeRaised,
                   script, aside,
                   exc, history, ret, chatIdx, sdRet, calendar, frame>>

\* browser = await p.chromium.launch(headless=True)
Launch ==
    /\ pc = "launch"
    /\ \/ /\ browser' = "open"
          /\ pc' = "new_context"
          /\ exc' = exc
       \/ \E f \in Faults :
            /\ exc' = f
            /\ pc' = "exit_with"
            /\ browser' = browser
    /\ UNCHANGED <<playwright, pending, outcome, result, raised, caught, closeRaised,
                   script, aside,
                   history, ret, chatIdx, sdRet, calendar, frame>>

\* context = await browser.new_context(...)
NewContext ==
    /\ pc = "new_context"
    /\ \/ /\ pc' = "new_page"
          /\ exc' = exc
       \/ \E f \in Faults :
            /\ exc' = f
            /\ pc' = "exit_with"
    /\ UNCHANGED <<session, history, ret, chatIdx, sdRet, calendar, frame>>

\* page = await context.new_page()
NewPage ==
    /\ pc = "new_page"
    /\ \/ /\ pc' = "goto"
          /\ exc' = exc
       \/ \E f \in Faults :
            /\ exc' = f
            /\ pc' = "exit_with"
    /\ UNCHANGED <<session, history, ret, chatIdx, sdRet, calendar, frame>>

\* return results if results else [{"time": "N/A", ...}]
TryReturnValue(r) ==
    IF r # <<>> THEN r
    ELSE <<Sentinel(<<"No se encontraron resultados">>, None)>>

TryReturn ==
    /\ pc = "try_return"
    /\ pending' = TryReturnValue(ret)
    /\ pc' = "finally"
    /\ UNCHANGED <<playwright, browser, outcome, result, raised, caught, closeRaised,
                   script, aside,
                   exc, history, ret, chatIdx, sdRet, calendar, frame>>

\* Mutant of ExceptValue: the sentinel does not embed the fault description.
ExceptValueNoDescription(e) == <<Sentinel(<<"Error">>, None)>>

\* except Exception as e: return [{"time": "N/A", "operator": f"Error: {str(e)}", ...}]
ExceptValue(e) == <<Sentinel(<<"Error: ", e>>, None)>>

Except ==
    /\ pc = "except"
    /\ exc # "none"
    /\ caught' = exc
    /\ pending' = ExceptValue(exc)
    /\ exc' = "none"
    /\ pc' = "finally"
    /\ UNCHANGED <<playwright, browser, outcome, result, raised, closeRaised, script, aside,
                   history, ret, chatIdx, sdRet, calendar, frame>>

\* finally: await browser.close()
\* An exception raised by the finally clause replaces the pending return.
Finally ==
    /\ pc = "finally"
    /\ \/ /\ browser' = "closed"
          /\ UNCHANGED <<exc, pending, closeRaised>>
       \/ \E f \in Faults :
            /\ exc' = f
            /\ pending' = <<>>
            /\ closeRaised' = TRUE
            /\ browser' = browser
    /\ pc' = "exit_with"
    /\ UNCHANGED <<playwright, outcome, result, raised, caught, script, aside,
                   history, ret, chatIdx, sdRet, calendar, frame>>

\* Mutant of StopBrowser: the session is not scoped, a browser nobody closed
\* stays open.
StopBrowserLeaves(b) == b

\* What stopping the driver leaves of a browser it launched.
StopBrowser(b) == IF b = "open" THEN "closed" ELSE b

\* Leaving `async with async_playwright()`: the driver is stopped, which ends
\* the browsers it launched; the pending return or exception then reaches the
\* caller.
ExitWith ==
    /\ pc = "exit_with"
    /\ playwright' = "stopped"
    /\ browser' = StopBrowser(browser)
    /\ IF exc # "none"
       THEN /\ outcome' = "raised"
            /\ raised' = exc
            /\ result' = result
       ELSE /\ outcome' = "returned"
            /\ result' = pending
            /\ raised' = raised
    /\ pc' = "done"
    /\ UNCHANGED <<pending, caught, closeRaised, script, aside, exc, history, ret, chatIdx, sdRet,
                   calendar, frame>>

-----------------------------------------------------------------------------
(* get_schedules_and_operators: loading the page *)

\* await page.goto(url, ...); await page.wait_for_timeout(3000)
Goto ==
    /\ pc = "goto"
    /\ \/ /\ pc' = "cookie"
          /\ UNCHANGED <<session, exc, history, ret, chatIdx, sdRet, calendar, frame>>
       \/ \E f \in Faults : Escapes(f)

\* if await cookie_btn.count() > 0: await cookie_btn.first.click()
\* Neither count() nor click() is inside a try statement.
Cookie ==
    /\ pc = "cookie"
    /\ \/ /\ \E present \in BOOLEAN : TRUE
          /\ pc' = "chat"
          /\ UNCHANGED <<session, exc, history, ret, chatIdx, sdRet, calendar, frame>>
       \/ \E f \in Faults : EscapesAt(f, "cookie_count")
       \/ \E f \in Faults : EscapesAt(f, "cookie_click")

chat_close_selectors ==
    <<".ic-close", "[class*=chat] .close", "[class*=chat] button[class*=close]",
      ".chat-close", "[aria-label=Close]", "[aria-label=Cerrar]">>

\* for selector in chat_close_selectors: one iteration.  count() is outside
\* the try statement, click() inside it.
Chat ==
    /\ pc = "chat"
    /\ chatIdx <= Len(chat_close_selectors)
    /\ \/ /\ \E present \in BOOLEAN : TRUE
          /\ chatIdx' = chatIdx + 1
          /\ UNCHANGED <<pc, session, exc, history, ret, sdRet, calendar, frame>>
       \/ /\ \E f \in Faults : swallowed' = TRUE
          /\ chatIdx' = chatIdx + 1
          /\ UNCHANGED <<pc, session, exc, escapedAt, found, did, ret, sdRet, calendar,
                         frame>>
       \/ \E f \in Faults : EscapesAt(f, "chat_count")

\* if await booking_section.count() > 0: scroll_into_view_if_needed()
\* Neither operation is inside a try statement.
Scroll ==
    /\ pc = "chat"
    /\ chatIdx > Len(chat_close_selectors)
    /\ \/ /\ \E present \in BOOLEAN : TRUE
          /\ pc' = "sd_wait"
          /\ UNCHANGED <<session, exc, history, ret, chatIdx, sdRet, calendar, frame>>
       \/ \E f \in Faults : EscapesAt(f, "scroll_count")
       \/ \E f \in Faults : EscapesAt(f, "scroll")

-----------------------------------------------------------------------------
(* select_date_on_calendar *)

\* The date asked for: year and month of date_obj.
target_year == 2025
target_month == 2

MonthIndex(y, m) == y * 12 + (m - 1)
MonthOf(i) == <<i \div 12, (i % 12) + 1>>

\* Months the calendar can display when it appears.
DisplayedMonths ==
    {MonthOf(MonthIndex(target_year, target_month) + d) : d \in -MaxMonths..MaxMonths}

\* A day cell: its class names the target date (match), it is marked inactive,
\* and it is a `.clndr-table td.day` (day).
Cells == [match : BOOLEAN, inactive : BOOLEAN, day : BOOLEAN]

Abs(n) == IF n < 0 THEN -n ELSE n

\* select_date_on_calendar returns b to line 149.
SdReturns(b) ==
    /\ sdRet' = b
    /\ pc' = "date_selected"
    /\ cells' = <<>>
    /\ scanIdx' = 1

\* try: await page.wait_for_selector(...) except Exception: return False
SdWait ==
    /\ pc = "sd_wait"
    /\ \/ /\ \E d \in DisplayedMonths : displayed' = d
          /\ pc' = "sd_first_day"
          /\ UNCHANGED <<session, exc, history, ret, chatIdx, sdRet, monthsDiff,
                         navLeft, navClicks, cal, cells, scanIdx, clicked, frame>>
       \/ /\ \E f \in Faults : swallowed' = TRUE
          /\ SdReturns("false")
          /\ UNCHANGED <<session, exc, escapedAt, found, did, ret, chatIdx, displayed,
                         monthsDiff, navLeft, navClicks, cal, clicked, frame>>

\* Mutant of MonthsDiff: the year of the displayed month is ignored.
MonthsDiffIgnoresYear(shown) == target_month - shown[2]

\* months_diff = (target_year - cal_year) * 12 + (target_month - cal_month)
MonthsDiff(shown) == (target_year - shown[1]) * 12 + (target_month - shown[2])

\* if not (cal_year == target_year and cal_month == target_month)
NeedsNavigation(shown) == ~(shown[1] = target_year /\ shown[2] = target_month)

\* Lines 35-48: read the displayed month off the first day cell.
SdFirstDay ==
    /\ pc = "sd_first_day"
    /\ \/ /\ \E readable \in BOOLEAN :
               /\ cal' = IF readable THEN displayed ELSE cal
               /\ IF readable /\ NeedsNavigation(displayed)
                  THEN /\ monthsDiff' = MonthsDiff(displayed)
                       /\ navLeft' = Abs(MonthsDiff(displayed))
                       /\ pc' = "sd_paginate"
                  ELSE /\ pc' = "sd_fast"
                       /\ UNCHANGED <<monthsDiff, navLeft>>
          /\ UNCHANGED <<session, exc, history, ret, chatIdx, sdRet, displayed,
                         navClicks, cells, scanIdx, clicked, frame>>
       \/ \E f \in Faults : Escapes(f)

\* The month the widget displays after a click on a pagination control.
Paginate(shown, diff) ==
    MonthOf(MonthIndex(shown[1], shown[2]) + (IF diff > 0 THEN 1 ELSE -1))

\* The clicks counted so far, as <<next, previous>>, after one more.
CountClick(clicks, diff) ==
    IF diff > 0 THEN <<clicks[1] + 1, clicks[2]>> ELSE <<clicks[1], clicks[2] + 1>>

\* for _ in range(abs(months_diff)): one iteration.
SdPaginate ==
    /\ pc = "sd_paginate"
    /\ \/ /\ displayed' = Paginate(displayed, monthsDiff)
          /\ navClicks' = CountClick(navClicks, monthsDiff)
          /\ navLeft' = navLeft - 1
          /\ pc' = IF navLeft - 1 > 0 THEN "sd_paginate" ELSE "sd_fast"
          /\ UNCHANGED <<session, exc, history, ret, chatIdx, sdRet, monthsDiff, cal,
                         cells, scanIdx, clicked, frame>>
       \/ /\ pc' = "sd_fast"
          /\ UNCHANGED <<session, exc, history, ret, chatIdx, sdRet, calendar, frame>>
       \/ \E f \in Faults : Escapes(f)

\* page.locator('td[class*="calendar-day-<date>"]').first: index of the first
\* cell whose class names the target date, 0 when count() is 0.
FirstMatch(cs) ==
    IF \E i \in 1..Len(cs) : cs[i].match
    THEN CHOOSE i \in 1..Len(cs) : cs[i].match /\ \A j \in 1..(i - 1) : ~cs[j].match
    ELSE 0

\* if 'inactive' not in classes
Available(cell) == ~cell.inactive

\* Lines 62-77: the selector for the target date's cell.
SdFast ==
    /\ pc = "sd_fast"
    /\ \/ \E cs \in SeqsUpTo(Cells, MaxCells) :
            /\ IF FirstMatch(cs) # 0 /\ Available(cs[FirstMatch(cs)])
               THEN /\ clicked' = <<cs[FirstMatch(cs)]>>
                    /\ SdReturns("true")
               ELSE /\ cells' = cs
                    /\ scanIdx' = 1
                    /\ pc' = "sd_scan"
                    /\ UNCHANGED <<sdRet, clicked>>
            /\ UNCHANGED <<session, exc, history, ret, chatIdx, displayed, monthsDiff,
                           navLeft, navClicks, cal, frame>>
       \/ \E f \in Faults : Escapes(f)

\* page.locator('.clndr-table td.day'): the day cells, in document order.
DayCells(cs) == SelectSeq(cs, LAMBDA c : c.day)

\* for i in range(day_count): one iteration, or the return after the loop.
SdScan ==
    /\ pc = "sd_scan"
    /\ LET all_days == DayCells(cells) IN
       \/ /\ scanIdx > Len(all_days)
          /\ SdReturns("false")
          /\ UNCHANGED <<session, exc, history, ret, chatIdx, displayed, monthsDiff,
                         navLeft, navClicks, cal, clicked, frame>>
       \/ /\ scanIdx <= Len(all_days)
          /\ LET cell == all_days[scanIdx] IN
             IF cell.match
             THEN IF Available(cell)
                  THEN /\ clicked' = <<cell>>
                       /\ SdReturns("true")
                  ELSE /\ SdReturns("false")
                       /\ clicked' = clicked
             ELSE /\ scanIdx' = scanIdx + 1
                  /\ UNCHANGED <<pc, sdRet, cells, clicked>>
          /\ UNCHANGED <<session, exc, history, ret, chatIdx, displayed, monthsDiff,
                         navLeft, navClicks, cal, frame>>
       \/ \E f \in Faults : Escapes(f)

-----------------------------------------------------------------------------
(* get_schedules_and_operators: the date and the enumeration of the slots *)

\* return [{"time": "N/A", "operator": "No se pudo seleccionar la fecha", ...}]
DateFailedValue == <<Sentinel(<<"No se pudo seleccionar la fecha">>, None)>>

\* Mutant of AfterSelectDate: the failed selection is ignored.
AfterSelectDateIgnored(selected) == "enum_select"

\* if not date_selected: return ...
\* The position after line 149, given what select_date_on_calendar returned.
AfterSelectDate(selected) == IF selected = "true" THEN "enum_select" ELSE "try_return"

\* Lines 149-154: the outcome of select_date_on_calendar.  The locals of
\* select_date_on_calendar are gone, and the calendar is not looked at again.
DateSelected ==
    /\ pc = "date_selected"
    /\ \/ /\ AfterSelectDate(sdRet) = "try_return"
          /\ ret' = DateFailedValue
          /\ pc' = "try_return"
          /\ dom' = dom
       \/ /\ AfterSelectDate(sdRet) = "enum_select"
          /\ \E d \in Doms : dom' = d
          /\ pc' = "enum_select"
          /\ ret' = ret
    /\ ResetCalendar
    /\ UNCHANGED <<session, exc, history, chatIdx, sdRet, schedules, times, tier,
                   provider_names, slotIdx, radio_clicked, attempt, provider_id,
                   operator,
                   results, reads>>

\* await page.wait_for_timeout(2000) of line 154 raises.
DateSelectedRaises ==
    /\ pc = "date_selected"
    /\ AfterSelectDate(sdRet) = "enum_select"
    /\ \E f \in Faults : Escapes(f)

\* quota_text of lines 168-172.
QuotaText(quota) ==
    IF quota # "" /\ quota # " " THEN <<"Ultimas ", quota, " plazas">> ELSE None

\* Lines 163-177: the candidates of options i.. (1-based; Python's i is i - 1).
RECURSIVE SelectSchedules(_, _)
SelectSchedules(options, i) ==
    IF i > Len(options) THEN <<>>
    ELSE IF options[i].value # ""
         THEN <<[time |-> options[i].value, index |-> i - 2,
                 quota |-> QuotaText(options[i].quota)]>>
              \o SelectSchedules(options, i + 1)
         ELSE SelectSchedules(options, i + 1)

\* Mutant of FromSelect: an option whose value an earlier candidate has is
\* dropped.
FromSelectDistinct(options) ==
    LET all == IF Len(options) > 1 THEN SelectSchedules(options, 2) ELSE <<>>
        RECURSIVE Distinct(_)
        Distinct(i) ==
            IF i > Len(all) THEN <<>>
            ELSE IF \E j \in 1..(i - 1) : all[j].time = all[i].time
                 THEN Distinct(i + 1)
                 ELSE <<all[i]>> \o Distinct(i + 1)
    IN  Distinct(1)

\* if select_count > 1: for i in range(1, select_count)
FromSelect(options) ==
    IF Len(options) > 1 THEN SelectSchedules(options, 2) ELSE <<>>

\* Lines 184-192: the candidates of radios i..
RECURSIVE RadioSchedules(_, _)
RadioSchedules(radios, i) ==
    IF i > Len(radios) THEN <<>>
    ELSE IF radios[i] # ""
         THEN <<[time |-> radios[i], index |-> i - 1, quota |-> None]>>
              \o RadioSchedules(radios, i + 1)
         ELSE RadioSchedules(radios, i + 1)

FromRadios(radios) == RadioSchedules(radios, 1)

\* sorted(set(times))
Range(q) == {q[i] : i \in 1..Len(q)}
RECURSIVE Sorted(_)
Sorted(S) ==
    IF S = {} THEN <<>>
    ELSE LET m == CHOOSE x \in S : \A y \in S : TimeRank(x) <= TimeRank(y)
         IN  <<m>> \o Sorted(S \ {m})

\* Lines 197-199: the candidates of the times found in the form's text.
FromRegex(found_times) ==
    LET q == Sorted(Range(found_times))
    IN  [i \in 1..Len(q) |-> [time |-> q[i], index |-> i - 1, quota |-> None]]

\* Mutant of AfterTier: the next tier is consulted whatever was found.
AfterTierAlways(found_so_far, next) == next

\* if not schedules: the position after a tier, the slot loop when there are
\* candidates, else the next tier.
AfterTier(found_so_far, next) == IF found_so_far # <<>> THEN "directory" ELSE next

\* A tier appends its candidates to schedules.
Enumerated(candidates, name, next) ==
    /\ schedules' = schedules \o candidates
    /\ found' = Len(schedules \o candidates)
    /\ did' = did \cup {"enumerate"}
    /\ tier' = IF candidates # <<>> THEN name ELSE tier
    /\ pc' = AfterTier(schedules \o candidates, next)
    /\ UNCHANGED <<session, exc, swallowed, escapedAt, ret, chatIdx, sdRet, calendar, dom,
                   provider_names, slotIdx, radio_clicked, attempt, provider_id,
                   operator,
                   results, reads>>

\* Lines 156-177: the dropdown tier.
EnumSelect ==
    /\ pc = "enum_select"
    /\ \/ /\ Enumerated(FromSelect(dom.options), "select", "enum_radio")
          /\ times' = times
       \/ \E f \in Faults : Escapes(f)

\* Lines 180-192: the radio tier.
EnumRadio ==
    /\ pc = "enum_radio"
    /\ \/ /\ Enumerated(FromRadios(dom.radios), "radio", "enum_regex")
          /\ times' = times
       \/ \E f \in Faults : Escapes(f)

\* What re.findall finds in the text of #formActividad: the times, in the
\* order they occur; Absent when the page has no such element.
FormTimes == SeqsUpTo(Times, MaxSlots) \cup {Absent}

\* Lines 194-199: the regex tier.  text_content() waits for #formActividad
\* and raises TimeoutError when the element never appears.
EnumRegex ==
    /\ pc = "enum_regex"
    /\ \/ \E form \in FormTimes :
            IF form = Absent
            THEN EscapesAt("TimeoutError", "form_absent")
            ELSE /\ times' = form
                 /\ Enumerated(FromRegex(form), "regex", "no_slots")
       \/ \E f \in Faults : Escapes(f)

\* Texts of the first operator block the selectors of extract_operator_info
\* find, Absent when none matches.
OperatorTexts == {Absent, <<"Enroma">>, <<>>}

\* extract_operator_info(page), on a page whose content names no operator
\* outside that block.
ExtractOperatorInfo(text) ==
    IF text # Absent /\ text # <<>> THEN text ELSE <<"No encontrado">>

\* The list returned at line 204.
NoSlotsValue(op, price) == <<Sentinel(<<"No se encontraron horarios">>, price)>>

\* Lines 201-204: no tier found a slot.
NoSlots ==
    /\ pc = "no_slots"
    /\ \/ /\ \E text \in OperatorTexts, jsRaises \in BOOLEAN :
               LET op == ExtractOperatorInfo(text)
                   price == ExtractPrice(PriceElements(dom), jsRaises)
               IN  /\ operator' = op
                   /\ ret' = NoSlotsValue(op, price)
          /\ Returns
          /\ UNCHANGED <<session, exc, history, chatIdx, sdRet, calendar,
                         schedules, times, tier, results, reads>>
       \/ \E f \in Faults : Escapes(f)

-----------------------------------------------------------------------------
(* get_schedules_and_operators: the slot loop *)

\* provider_names of lines 207-212.
ProviderDirectory ==
    [id \in {"36417", "285", "6130", "54973"} |->
        CASE id = "36417" -> <<"Enroma">>
          [] id = "285" -> <<"Tourismotion">>
          [] id = "6130" -> <<"Vivicos">>
          [] id = "54973" -> <<"Rutasromanas">>]

Directory ==
    /\ pc = "directory"
    /\ provider_names' = ProviderDirectory
    /\ slotIdx' = 1
    /\ pc' = "res_radio"
    /\ UNCHANGED <<session, exc, history, ret, chatIdx, sdRet, calendar, dom,
                   schedules, times, tier, radio_clicked, attempt, provider_id, operator, results,
                   reads>>

\* Number of radio inputs the selector of line 218 finds.
RadioCount(d, time) == Cardinality({i \in 1..Len(d.radios) : d.radios[i] = time})

\* The page after a click on the radio input of the slot.
ClickRadio(d, time) == [d EXCEPT !.active = time]

\* Mutant of AfterRadio: the dropdown is set whatever the radio click did.
AfterRadioAlways(radioClicked) == "res_select"

\* if not radio_clicked: the position after the radio attempt.
AfterRadio(radioClicked) == IF radioClicked THEN "res_provider" ELSE "res_select"

\* Lines 217-227: click the radio input of the slot.  locator.click() raises
\* when the locator resolves to several elements; the handler takes it, as it
\* takes a fault of the wait that follows a click.
ResRadio ==
    /\ pc = "res_radio"
    /\ LET time == schedules[slotIdx].time IN
       \/ /\ RadioCount(dom, time) = 0
          /\ radio_clicked' = FALSE
          /\ attempt' = [attempt EXCEPT !.radio = "absent"]
          /\ pc' = AfterRadio(FALSE)
          /\ UNCHANGED <<swallowed, dom, did>>
          /\ UNCHANGED <<session, exc, escapedAt, found, ret, chatIdx, sdRet, calendar,
                         schedules, times, tier, provider_names, slotIdx, provider_id,
                         operator, results, reads>>
       \/ /\ RadioCount(dom, time) = 1
          /\ radio_clicked' = TRUE
          /\ attempt' = [attempt EXCEPT !.radio = "clicked"]
          /\ dom' = ClickRadio(dom, time)
          /\ did' = did \cup {"activate"}
          /\ pc' = AfterRadio(TRUE)
          /\ swallowed' \in {swallowed, TRUE}
          /\ UNCHANGED <<session, exc, escapedAt, found, ret, chatIdx, sdRet, calendar,
                         schedules, times, tier, provider_names, slotIdx, provider_id,
                         operator, results, reads>>
       \/ /\ \/ RadioCount(dom, time) > 1
             \/ RadioCount(dom, time) = 1 /\ \E f \in Faults : TRUE
          /\ swallowed' = TRUE
          /\ radio_clicked' = FALSE
          /\ attempt' = [attempt EXCEPT !.radio = "raised"]
          /\ did' = did \cup {"activate"}
          /\ pc' = AfterRadio(FALSE)
          /\ UNCHANGED <<dom>>
          /\ UNCHANGED <<session, exc, escapedAt, found, ret, chatIdx, sdRet, calendar,
                         schedules, times, tier, provider_names, slotIdx, provider_id,
                         operator, results, reads>>
       \/ \E f \in Faults : Escapes(f)

\* The script of lines 231-237, run in the page: with no select nothing
\* happens; a value no option has leaves the select with no selection.
SetSelect(d, time) ==
    IF d.select
    THEN [d EXCEPT !.active =
             IF \E i \in 1..Len(d.options) : d.options[i].value = time
             THEN time ELSE "none"]
    ELSE d

\* Lines 230-238: the dropdown, when the radio was not clicked.
ResSelect ==
    /\ pc = "res_select"
    /\ \/ /\ dom' = SetSelect(dom, schedules[slotIdx].time)
          /\ attempt' = [attempt EXCEPT !.select = TRUE]
          /\ did' = did \cup {"activate"}
          /\ pc' = "res_provider"
          /\ UNCHANGED <<session, exc, swallowed, escapedAt, found, ret, chatIdx, sdRet,
                         calendar, schedules, times, tier, provider_names, slotIdx,
                         radio_clicked, provider_id, operator, results, reads>>
       \/ \E f \in Faults : Escapes(f)

\* Lines 241-244: the value of #idProveedor, "" when the field is missing.
ReadProvider(d) == IF d.provider THEN ProviderOf(d.active) ELSE ""

\* Mutant of OperatorName: the empty provider id is not told apart.
OperatorNameNoEmptyCheck(names, id) ==
    IF id \in DOMAIN names THEN names[id] ELSE <<"Proveedor #", id>>

\* provider_names.get(provider_id, f"Proveedor #{provider_id}") if provider_id
\* else "Desconocido"
OperatorName(names, id) ==
    IF id # ""
    THEN IF id \in DOMAIN names THEN names[id] ELSE <<"Proveedor #", id>>
    ELSE <<"Desconocido">>

\* Lines 241-247: the provider of the slot.
ResProvider ==
    /\ pc = "res_provider"
    /\ \/ /\ provider_id' = ReadProvider(dom)
          /\ operator' = OperatorName(provider_names, ReadProvider(dom))
          /\ pc' = "res_price"
          /\ UNCHANGED <<session, exc, history, ret, chatIdx, sdRet, calendar, dom,
                         schedules, times, tier, provider_names, slotIdx, radio_clicked, attempt,
                         results, reads>>
       \/ \E f \in Faults : Escapes(f)

\* The result appended at lines 252-258.
SlotResult(schedule, op, price, id) ==
    [time |-> schedule.time, operator |-> op, price |-> price,
     quota |-> schedule.quota, provider_id |-> id]

\* Mutant of Collect: the result is inserted at the front.
CollectFront(rs, r) == <<r>> \o rs

\* results.append(...)
Collect(rs, r) == Append(rs, r)

\* Lines 250-260: the price of the slot, its result, and the return after
\* the last slot.
ResPrice ==
    /\ pc = "res_price"
    /\ \/ /\ \E jsRaises \in BOOLEAN :
               LET price == ExtractPrice(PriceElements(dom), jsRaises)
                   rs == Collect(results, SlotResult(schedules[slotIdx], operator,
                                                     price, provider_id))
               IN  /\ results' = rs
                   /\ reads' = Append(reads, [active |-> dom.active,
                                              provider_id |-> ReadProvider(dom),
                                              price |-> price])
                   /\ ret' = IF slotIdx < Len(schedules) THEN ret ELSE rs
          /\ IF slotIdx < Len(schedules)
             THEN /\ slotIdx' = slotIdx + 1
                  /\ pc' = "res_radio"
                  /\ attempt' = Untried
                  /\ UNCHANGED <<dom, provider_names, radio_clicked, provider_id>>
             ELSE Returns
          /\ UNCHANGED <<session, exc, history, chatIdx, sdRet, calendar,
                         schedules, times, tier, operator>>
       \/ \E f \in Faults : Escapes(f)

-----------------------------------------------------------------------------
(* Specification *)

Next ==
    \/ EnterWith \/ Launch \/ NewContext \/ NewPage
    \/ Goto \/ Cookie \/ Chat \/ Scroll
    \/ SdWait \/ SdFirstDay \/ SdPaginate \/ SdFast \/ SdScan
    \/ DateSelected \/ DateSelectedRaises
    \/ EnumSelect \/ EnumRadio \/ EnumRegex \/ NoSlots
    \/ Directory \/ ResRadio \/ ResSelect \/ ResProvider \/ ResPrice
    \/ TryReturn \/ Except \/ Finally \/ ExitWith

Spec == Init /\ [][Next]_vars

-----------------------------------------------------------------------------
(* extract_price on a page of its own.                                       *)
(*                                                                           *)
(* The page holds the adult price of the booking form (#tPrecioSpan0) with   *)
(* any short text, and possibly a later price element and the booking form   *)
(* total.  The selector loop and the script fallback are one step each.      *)

\* Bound on the length of the enumerated texts of the adult price element.
MaxText == 3

PriceAlphabet == {"1", "5", ",", " ", "€", "T"}

\* The texts of the specification's examples.
Text25 == <<"2", "5", ",", "0", "0", " ", "€">>
TextTotal == <<"T", "o", "t", "a", "l", ":", " ", "1", "8", ".", "5", "0">>

PriceTexts == SeqsUpTo(PriceAlphabet, MaxText) \cup {Text25, TextTotal, Absent}

\* Pages extract_price can be applied to.
PricePages ==
    {[sel \in PriceQueries |->
         IF sel = "#tPrecioSpan0" THEN first
         ELSE IF sel = ".total-price" THEN later
         ELSE IF sel = price_total THEN total
         ELSE Absent] :
     first \in PriceTexts,
     later \in {Absent, <<"8", " ", "€">>},
     total \in {Absent, <<"3">>}}

PriceInit ==
    /\ pc = "price_selectors"
    /\ NoInvocation
    /\ NoApp
    /\ priceEls \in PricePages
    /\ extracted = None

\* Lines 324-336: the loop over price_selectors.  count() and text_content()
\* are page operations outside any try statement.
SelectorLoop ==
    /\ pc = "price_selectors"
    /\ \/ LET price == PriceFromSelectors(priceEls, 1)
          IN  IF price # None
              THEN /\ extracted' = price
                   /\ pc' = "price_done"
              ELSE /\ pc' = "price_js"
                   /\ UNCHANGED extracted
       \/ /\ pc' = "price_raised"
          /\ UNCHANGED extracted
    /\ UNCHANGED <<priceEls, exc, invocation, history, ret, chatIdx, sdRet, calendar,
                   frame, app>>

\* Lines 339-358: the script evaluated in the page, whose failure is
\* swallowed at line 355, then `return None`.
ScriptFallback ==
    /\ pc = "price_js"
    /\ \E jsRaises \in BOOLEAN :
           extracted' = IF jsRaises THEN None ELSE PriceOfJs(PriceJs(priceEls))
    /\ pc' = "price_done"
    /\ UNCHANGED <<priceEls, exc, invocation, history, ret, chatIdx, sdRet, calendar,
                   frame, app>>

PriceNext == SelectorLoop \/ ScriptFallback

SpecPrice == PriceInit /\ [][PriceNext]_vars

-----------------------------------------------------------------------------
(* Two concurrent invocations of compare_all_schedules.                      *)
(*                                                                           *)
(* Each invocation has its own driver, browser, page and locals: the state   *)
(* of the session is a function of the invocation.  What an invocation meets *)
(* (a launch that fails, a page without calendar, ...) is fixed by script,   *)
(* so that its result can be compared with the result it gives alone.  The   *)
(* steps of get_schedules_and_operators are grouped in three phases; every   *)
(* page operation needs the invocation's own browser to be open.             *)

Proc == {1, 2}

Scripts == {"launch_fails", "goto_fails", "no_calendar", "no_slots", "one_slot",
            "close_fails"}

\* Positions at which an invocation operates on its page.
PagePhases == {"goto", "sd_wait", "enum_select"}

\* Variables the pair of invocations does not use.
idle == <<history, chatIdx, sdRet, calendar, frame, aside>>

PairInit ==
    /\ pc = [i \in Proc |-> "start"]
    /\ playwright = [i \in Proc |-> "unstarted"]
    /\ browser = [i \in Proc |-> "none"]
    /\ exc = [i \in Proc |-> "none"]
    /\ pending = [i \in Proc |-> <<>>]
    /\ outcome = [i \in Proc |-> "none"]
    /\ result = [i \in Proc |-> <<>>]
    /\ raised = [i \in Proc |-> "none"]
    /\ caught = [i \in Proc |-> "none"]
    /\ closeRaised = [i \in Proc |-> FALSE]
    /\ ret = [i \in Proc |-> <<>>]
    /\ script \in [Proc -> Scripts]
    /\ InitAside
    /\ swallowed = FALSE
    /\ escapedAt = "none"
    /\ found = 0
    /\ did = {}
    /\ chatIdx = 1
    /\ sdRet = "none"
    /\ InitCalendar
    /\ InitFrame

\* async with async_playwright() as p: the invocation starts its own driver.
PairEnterWith(i) ==
    /\ pc[i] = "start"
    /\ playwright' = [playwright EXCEPT ![i] = "started"]
    /\ pc' = [pc EXCEPT ![i] = "launch"]
    /\ UNCHANGED <<browser, exc, pending, outcome, result, raised, caught,
                   closeRaised, ret, script, idle>>

\* browser = await p.chromium.launch(headless=True): a browser of its own.
LaunchBrowser(browsers, i) == [browsers EXCEPT ![i] = "open"]

\* Lines 374-381: launch, new_context, new_page.
PairLaunch(i) ==
    /\ pc[i] = "launch"
    /\ IF script[i] = "launch_fails"
       THEN /\ exc' = [exc EXCEPT ![i] = "TimeoutError"]
            /\ pc' = [pc EXCEPT ![i] = "exit_with"]
            /\ browser' = browser
       ELSE /\ browser' = LaunchBrowser(browser, i)
            /\ pc' = [pc EXCEPT ![i] = "goto"]
            /\ exc' = exc
    /\ UNCHANGED <<playwright, pending, outcome, result, raised, caught,
                   closeRaised, ret, script, idle>>

\* The fault a page operation of invocation i raises, "none" when it
\* succeeds: an operation on a closed browser raises TargetClosedError.
PageFault(i, failing) ==
    IF browser[i] # "open" THEN "TargetClosedError"
    ELSE IF script[i] \in failing THEN "TimeoutError"
    ELSE "none"

\* The result of the slot the page of script "one_slot" offers.
OneSlot ==
    <<SlotResult([time |-> "09:00", index |-> 0, quota |-> None],
                 OperatorName(ProviderDirectory, ProviderOf("09:00")),
                 PriceOfText(PriceTextOf("09:00")), ProviderOf("09:00"))>>

\* Line 384: one phase of get_schedules_and_operators on the invocation's page.
PairPage(i) ==
    /\ pc[i] \in PagePhases
    /\ LET f == PageFault(i, IF pc[i] = "goto" THEN {"goto_fails"} ELSE {}) IN
       IF f # "none"
       THEN /\ exc' = [exc EXCEPT ![i] = f]
            /\ pc' = [pc EXCEPT ![i] = "except"]
            /\ ret' = ret
       ELSE /\ exc' = exc
            /\ CASE pc[i] = "goto" ->
                      /\ pc' = [pc EXCEPT ![i] = "sd_wait"]
                      /\ ret' = ret
                 [] pc[i] = "sd_wait" ->
                      IF script[i] = "no_calendar"
                      THEN /\ ret' = [ret EXCEPT ![i] = DateFailedValue]
                           /\ pc' = [pc EXCEPT ![i] = "try_return"]
                      ELSE /\ pc' = [pc EXCEPT ![i] = "enum_select"]
                           /\ ret' = ret
                 [] pc[i] = "enum_select" ->
                      /\ ret' = [ret EXCEPT ![i] =
                                   IF script[i] = "no_slots"
                                   THEN NoSlotsValue(<<"No encontrado">>, None)
                                   ELSE OneSlot]
                      /\ pc' = [pc EXCEPT ![i] = "try_return"]
    /\ UNCHANGED <<playwright, browser, pending, outcome, result, raised, caught,
                   closeRaised, script, idle>>

\* return results if results else [...]
PairTryReturn(i) ==
    /\ pc[i] = "try_return"
    /\ pending' = [pending EXCEPT ![i] = TryReturnValue(ret[i])]
    /\ pc' = [pc EXCEPT ![i] = "finally"]
    /\ UNCHANGED <<playwright, browser, exc, outcome, result, raised, caught,
                   closeRaised, ret, script, idle>>

\* except Exception as e: return [...]
PairExcept(i) ==
    /\ pc[i] = "except"
    /\ caught' = [caught EXCEPT ![i] = exc[i]]
    /\ pending' = [pending EXCEPT ![i] = ExceptValue(exc[i])]
    /\ exc' = [exc EXCEPT ![i] = "none"]
    /\ pc' = [pc EXCEPT ![i] = "finally"]
    /\ UNCHANGED <<playwright, browser, outcome, result, raised, closeRaised, ret,
                   script, idle>>

\* Mutant of CloseBrowser: the browsers are one shared browser, closing it
\* closes it for every invocation.
CloseEveryBrowser(browsers, i) ==
    [j \in DOMAIN browsers |-> IF browsers[j] = "open" THEN "closed" ELSE browsers[j]]

\* await browser.close(): the browser this invocation launched.
CloseBrowser(browsers, i) == [browsers EXCEPT ![i] = "closed"]

\* finally: await browser.close()
PairFinally(i) ==
    /\ pc[i] = "finally"
    /\ IF script[i] = "close_fails"
       THEN /\ exc' = [exc EXCEPT ![i] = "TargetClosedError"]
            /\ pending' = [pending EXCEPT ![i] = <<>>]
            /\ closeRaised' = [closeRaised EXCEPT ![i] = TRUE]
            /\ browser' = browser
       ELSE /\ browser' = CloseBrowser(browser, i)
            /\ UNCHANGED <<exc, pending, closeRaised>>
    /\ pc' = [pc EXCEPT ![i] = "exit_with"]
    /\ UNCHANGED <<playwright, outcome, result, raised, caught, ret, script, idle>>

\* Leaving `async with async_playwright()`: the invocation's own driver is
\* stopped, with the browser it launched.
PairExitWith(i) ==
    /\ pc[i] = "exit_with"
    /\ playwright' = [playwright EXCEPT ![i] = "stopped"]
    /\ browser' = [browser EXCEPT ![i] = StopBrowser(browser[i])]
    /\ IF exc[i] # "none"
       THEN /\ outcome' = [outcome EXCEPT ![i] = "raised"]
            /\ raised' = [raised EXCEPT ![i] = exc[i]]
            /\ result' = result
       ELSE /\ outcome' = [outcome EXCEPT ![i] = "returned"]
            /\ result' = [result EXCEPT ![i] = pending[i]]
            /\ raised' = raised
    /\ pc' = [pc EXCEPT ![i] = "done"]
    /\ UNCHANGED <<exc, pending, caught, closeRaised, ret, script, idle>>

PairNext ==
    \E i \in Proc :
        \/ PairEnterWith(i) \/ PairLaunch(i) \/ PairPage(i)
        \/ PairTryReturn(i) \/ PairExcept(i) \/ PairFinally(i) \/ PairExitWith(i)

SpecPair == PairInit /\ [][PairNext]_vars

-----------------------------------------------------------------------------
(* Claims *)

\* The sentinel built from a fault by the top-level handler, as the claims
\* describe it: time "N/A", price null, operator embedding the description.
IsFaultSentinel(list, f) ==
    /\ Len(list) = 1
    /\ list[1].time = "N/A"
    /\ list[1].price = None
    /\ list[1].operator = <<"Error: ", f>>

C2_NeverRaises ==
    pc = "done" => (outcome = "returned" /\ result # <<>>)

C4_OneResultPerCandidate ==
    (pc = "finally" /\ sdRet = "true" /\ found >= 1)
        => (pending # <<>> /\ Len(pending) = found)

\* C5: when select_date_on_calendar returned false, no enumeration and no
\* activation is performed, and the list the invocation returns is exactly
\* one result with time "N/A".
C5_FailedDateShortCircuits ==
    sdRet = "false" =>
        /\ did = {}
        /\ pc \notin {"enum_select", "enum_radio", "enum_regex", "no_slots", "directory",
                      "res_radio", "res_select", "res_provider", "res_price"}
        /\ (pc = "done" /\ outcome = "returned") =>
              (Len(result) = 1 /\ result[1].time = "N/A")

C5_Witness ==
    /\ pc = "done"
    /\ sdRet = "false"
    /\ outcome = "returned"
    /\ Len(result) = 1
    /\ result[1].time = "N/A"

\* C6: when the date was selected and no tier discovered a slot, the single
\* "N/A" result carries the operator the Operator Extractor returned.
C6_NoSlotsCarriesOperator ==
    (pc = "finally" /\ sdRet = "true" /\ caught = "none" /\ tier = "none")
        => /\ Len(pending) = 1
           /\ pending[1].time = "N/A"
           /\ pending[1].operator = operator

\* C7: when every candidate was resolved, the returned list is in
\* enumeration order: its i-th element carries the time and the quota of the
\* i-th candidate and the provider id and the price read while that candidate
\* was being resolved.
C7_EnumerationOrder ==
    (pc = "done" /\ outcome = "returned" /\ caught = "none" /\ tier # "none")
        => /\ Len(result) = Len(schedules)
           /\ Len(reads) = Len(schedules)
           /\ \A i \in 1..Len(schedules) :
                /\ result[i].time = schedules[i].time
                /\ result[i].quota = schedules[i].quota
                /\ result[i].provider_id = reads[i].provider_id
                /\ result[i].price = reads[i].price

\* The example of the claim: dropdown options 09:00 and 11:30 with quota 2.
C7_Witness ==
    /\ pc = "done"
    /\ outcome = "returned"
    /\ tier = "select"
    /\ Len(result) = 2
    /\ result[1].time = "09:00" /\ result[1].quota = None
    /\ result[2].time = "11:30" /\ result[2].quota = <<"Ultimas ", "2", " plazas">>
    /\ result[1].provider_id = "36417" /\ result[2].provider_id = "99999"

\* C8: no exception leaves the per-slot resolution: once the enumeration has
\* discovered candidates, control never reaches the top-level handler.
C8_NoFaultLeavesResolution ==
    (sdRet = "true" /\ found >= 1) => (pc # "except" /\ caught = "none")

\* The operator the claim gives for a provider id, with the label it names.
ClaimedOperator(id, label) ==
    CASE id = "" -> <<"Desconocido">>
      [] id = "36417" -> <<"Enroma">>
      [] id = "285" -> <<"Tourismotion">>
      [] id = "6130" -> <<"Vivicos">>
      [] id = "54973" -> <<"Rutasromanas">>
      [] OTHER -> <<label, id>>

C10_TrueOnlyAfterClickNeverRaises ==
    /\ sdRet # "raised"
    /\ (pc = "date_selected" /\ sdRet = "true") =>
          (clicked # <<>> /\ clicked[1].match /\ ~clicked[1].inactive)
    /\ (pc = "date_selected" /\ sdRet = "false") => clicked = <<>>

\* The five fields of a result, as the spec's SlotResult lists them.
SlotResultFields == {"time", "operator", "price", "quota", "provider_id"}

\* C11: every element of every list the invocation returns has the five
\* fields time, operator, price, quota and provider id, the sentinel results
\* included.
C11_UniformShape ==
    (pc = "done" /\ outcome = "returned")
        => \A i \in 1..Len(result) : DOMAIN result[i] = SlotResultFields

\* Page operations of the slot enumeration (lines 156-199).
EnumerationSites == {"enum_select", "enum_radio", "enum_regex", "form_absent"}

\* C12: slot enumeration never fails: for every page after date selection,
\* the page with neither dropdown, nor radio group, nor booking form included,
\* no fault leaves the enumeration.
C12_EnumerationNeverFails == escapedAt \notin EnumerationSites

\* The best-effort operations of lines 118-146 that are not in a try
\* statement: the click on the cookie-consent button and the scroll.
OverlaySites == {"cookie_click", "scroll"}

\* C13: a failure to click the cookie-consent button or a chat-close button,
\* or to scroll the booking section into view, is ignored: no such fault
\* reaches the top-level handler, the invocation goes on to date selection.
C13_OverlayFailuresIgnored == escapedAt \notin OverlaySites

\* C15: when the provider id and the price are read for a candidate, the
\* slot selected in the live page is that candidate, for the candidates of
\* every tier, and also when the radio click fails or the dropdown is absent.
C15_ReadsActiveCandidate ==
    \A i \in 1..Len(reads) : reads[i].active = schedules[i].time

\* C16: for each candidate the radio input is tried first; the dropdown is
\* set if and only if no such radio exists or the click raised, so at most
\* one of the two controls activates the candidate; the provider and the
\* price are read only after that attempt.
C16_RadioThenDropdown ==
    /\ pc = "res_radio" => attempt = Untried
    /\ pc = "res_select" => (attempt.radio \in {"absent", "raised"} /\ ~attempt.select)
    /\ pc \in {"res_provider", "res_price"} =>
          /\ attempt.radio # "untried"
          /\ attempt.select <=> attempt.radio \in {"absent", "raised"}
          /\ attempt.select <=> ~radio_clicked

\* The second candidate is about to be read after its radio click raised and
\* the dropdown was set instead.
C16_Witness ==
    /\ pc = "res_price"
    /\ slotIdx = 2
    /\ attempt = [radio |-> "raised", select |-> TRUE]

\* Positions of select_date_on_calendar after the pagination loop, and the
\* position of its caller right after it returned.
AfterPagination == {"sd_fast", "sd_scan", "date_selected"}

\* C17: when the displayed month was read off the calendar and the pagination
\* control stayed present (the loop ran all its iterations), the pagination
\* controls were clicked exactly |d| times, d = (target year - displayed
\* year) * 12 + (target month - displayed month): the next control only when
\* d > 0, the previous control only when d < 0, none when d = 0.
C17_PaginationClicks ==
    (pc \in AfterPagination /\ cal # <<0, 0>> /\ navLeft = 0) =>
        LET d == (target_year - cal[1]) * 12 + (target_month - cal[2])
        IN  navClicks = <<IF d > 0 THEN d ELSE 0, IF d < 0 THEN 0 - d ELSE 0>>

\* The calendar displayed December 2024 and was moved forward twice, across
\* the year, to February 2025.
C17_Witness ==
    /\ pc = "sd_fast"
    /\ cal = <<2024, 12>>
    /\ navClicks = <<2, 0>>
    /\ displayed = <<target_year, target_month>>

\* The selector of the fast path found a cell that names the target date and
\* the cell is marked inactive: the function is in its fallback scan.
InactiveMatchFound ==
    /\ pc = "sd_scan"
    /\ FirstMatch(cells) # 0
    /\ ~Available(cells[FirstMatch(cells)])

\* C18: if a cell matching the target date is found but is marked inactive,
\* select_date_on_calendar clicks no day cell and does not return true: it
\* does not go on to click another cell.
C18_InactiveMatchFails ==
    [][InactiveMatchFound => (clicked' = <<>> /\ sdRet' # "true")]_vars

\* Positions of the slot loop.
SlotLoop == {"directory", "res_radio", "res_select", "res_provider", "res_price"}

\* Every candidate has a null quota.
NullQuotas(cands) == \A i \in 1..Len(cands) : cands[i].quota = None

\* C19: the tiers are tried in the order dropdown, radio group, regex scrape,
\* a tier being consulted only when every earlier tier produced no candidate;
\* so all candidates come from a single tier, and the candidates of the radio
\* and regex tiers have a null quota.
C19_TierOrder ==
    /\ pc \in {"enum_select", "enum_radio", "enum_regex", "no_slots"} =>
          (schedules = <<>> /\ tier = "none")
    /\ pc \in {"enum_radio", "enum_regex", "no_slots"} => FromSelect(dom.options) = <<>>
    /\ pc \in {"enum_regex", "no_slots"} => FromRadios(dom.radios) = <<>>
    /\ pc \in SlotLoop =>
          /\ tier \in {"select", "radio", "regex"}
          /\ schedules # <<>>
          /\ tier = "select" => schedules = FromSelect(dom.options)
          /\ tier = "radio" =>
                /\ FromSelect(dom.options) = <<>>
                /\ schedules = FromRadios(dom.radios)
                /\ NullQuotas(schedules)
          /\ tier = "regex" =>
                /\ FromSelect(dom.options) = <<>>
                /\ FromRadios(dom.radios) = <<>>
                /\ NullQuotas(schedules)
                /\ \A i \in 1..Len(schedules) : schedules[i].time \in Times

\* The dropdown has options beyond the placeholder, none with a value, and
\* the candidates come from the radio group.
C19_Witness ==
    /\ pc = "res_radio"
    /\ tier = "radio"
    /\ Len(dom.options) > 1
    /\ Len(schedules) = 2

\* Number of elements of a list of candidates or of results with time t.
WithTime(list, t) == Cardinality({i \in 1..Len(list) : list[i].time = t})

\* Number of times the page exposes the time t to the tier that produced the
\* candidates: options after the placeholder, radio inputs, or occurrences in
\* the form's text.
Exposed(t) ==
    CASE tier = "select" ->
           Cardinality({i \in 2..Len(dom.options) : dom.options[i].value = t})
      [] tier = "radio" ->
           Cardinality({i \in 1..Len(dom.radios) : dom.radios[i] = t})
      [] OTHER ->
           Cardinality({i \in 1..Len(times) : times[i] = t})

\* The slot loop completed and its results are about to be returned.
LoopCompleted == pc = "finally" /\ caught = "none" /\ found >= 1

\* C20 as stated: the enumerator does not deduplicate: a time the page
\* exposes k times gives k candidates, and k results.
C20_NoDeduplication ==
    /\ pc \in SlotLoop => \A t \in Times : WithTime(schedules, t) = Exposed(t)
    /\ LoopCompleted => \A t \in Times : WithTime(pending, t) = WithTime(schedules, t)

\* C20 amended: the dropdown and radio tiers do not deduplicate, the regex
\* tier does (one candidate per distinct time of the form's text); when the
\* slot loop completes the list has one result per candidate.
C20_ControlsKeepDuplicates ==
    /\ (pc \in SlotLoop /\ tier \in {"select", "radio"}) =>
          \A t \in Times : WithTime(schedules, t) = Exposed(t)
    /\ (pc \in SlotLoop /\ tier = "regex") =>
          \A t \in Times : WithTime(schedules, t) = IF Exposed(t) > 0 THEN 1 ELSE 0
    /\ LoopCompleted => \A t \in Times : WithTime(pending, t) = WithTime(schedules, t)

\* The dropdown offered 11:30 twice and the list about to be returned has two
\* results for 11:30.
C20_Witness ==
    /\ LoopCompleted
    /\ tier = "select"
    /\ WithTime(schedules, "11:30") = 2
    /\ WithTime(pending, "11:30") = 2

\* What an invocation gives when it runs alone, by what it meets: how it ends,
\* the list it returns and the exception it raises.
Alone(s) ==
    CASE s = "launch_fails" -> <<"raised", <<>>, "TimeoutError">>
      [] s = "goto_fails" ->
           <<"returned", <<Sentinel(<<"Error: ", "TimeoutError">>, None)>>, "none">>
      [] s = "no_calendar" ->
           <<"returned", <<Sentinel(<<"No se pudo seleccionar la fecha">>, None)>>, "none">>
      [] s = "no_slots" ->
           <<"returned", <<Sentinel(<<"No se encontraron horarios">>, None)>>, "none">>
      [] s = "one_slot" ->
           <<"returned",
             <<[time |-> "09:00", operator |-> <<"Enroma">>,
                price |-> <<"2", "5", ",", "0", "0", " ", "€">>, quota |-> None,
                provider_id |-> "36417"]>>,
             "none">>
      [] s = "close_fails" -> <<"raised", <<>>, "TargetClosedError">>

\* C14: two concurrent invocations each own their session and share no
\* mutable state: under every interleaving, while an invocation operates on
\* its page its own driver and browser are alive whatever the other one
\* closed, and it ends with the result it gives when it runs alone.
C14_Isolation ==
    \A i \in Proc :
        /\ pc[i] \in PagePhases => (browser[i] = "open" /\ playwright[i] = "started")
        /\ pc[i] = "done" => <<outcome[i], result[i], raised[i]>> = Alone(script[i])

\* The first invocation has returned and its session is closed while the
\* second is still enumerating the slots of its own page.
C14_Witness ==
    /\ pc[1] = "done"
    /\ browser[1] = "closed"
    /\ playwright[1] = "stopped"
    /\ pc[2] = "enum_select"
    /\ script[2] = "one_slot"

-----------------------------------------------------------------------------
(* C21 *)

HasDigit(t) == \E i \in 1..Len(t) : IsDigit(t[i])

\* A number as the expressions of extract_price capture it: digits, with at
\* most one decimal separator after the first digit.
IsNumberText(n) ==
    /\ Len(n) >= 1
    /\ IsDigit(n[1])
    /\ \A i \in 1..Len(n) : IsDigit(n[i]) \/ IsSep(n[i])
    /\ Cardinality({i \in 1..Len(n) : IsSep(n[i])}) <= 1

\* The price is a number found in the text, followed by " €".
MatchedIn(price, t) ==
    \E i \in 1..Len(t) : \E j \in i..Len(t) :
        /\ IsNumberText(SubSeq(t, i, j))
        /\ price = SubSeq(t, i, j) \o <<" ", "€">>

\* The queries that find an element on the page.
Present(els) == {q \in PriceQueries : els[q] # Absent}

\* The text of the first price element, in selector order, that has text.
FirstText(els) ==
    LET withText == {i \in 1..Len(price_selectors) :
                        /\ els[price_selectors[i]] # Absent
                        /\ Strip(els[price_selectors[i]]) # <<>>}
    IN  IF withText = {} THEN Absent
        ELSE els[price_selectors[CHOOSE i \in withText :
                                     \A k \in withText : i <= k]]

Price1850 == <<"1", "8", ".", "5", "0", " ", "€">>

\* C21: when extract_price returns, a first price text "25,00 €" has given
\* "25,00 €", a first price text "Total: 18.50" has given "18.50 €", a page
\* none of whose price elements holds a digit has given null, and every
\* non-null price is a number matched in the text of an element followed by " €".
C21_PriceOfFirstText ==
    pc = "price_done" =>
        /\ FirstText(priceEls) = Text25 => extracted = Text25
        /\ FirstText(priceEls) = TextTotal => extracted = Price1850
        /\ (\A q \in Present(priceEls) : ~HasDigit(priceEls[q])) => extracted = None
        /\ extracted # None =>
               \E q \in Present(priceEls) : MatchedIn(extracted, priceEls[q])

\* The text without currency symbol has been given its symbol.
C21_Witness ==
    /\ pc = "price_done"
    /\ FirstText(priceEls) = TextTotal
    /\ extracted = Price1850

-----------------------------------------------------------------------------
(* C22 *)

\* compare_all_schedules is a single coroutine driven to completion by
\* asyncio.run: as long as it has a step to take, it takes one.
SpecLive == Spec /\ WF_vars(Next)

\* The loops of select_date_on_calendar and of the slot loop stay within
\* their bounds: at most |months_diff| pagination steps, at most one scan
\* step per day cell, at most one result per candidate.
LoopBounds ==
    /\ navClicks[1] + navClicks[2] + navLeft <= Abs(monthsDiff)
    /\ scanIdx <= Len(DayCells(cells)) + 1
    /\ slotIdx <= Len(schedules) + 1
    /\ Len(results) <= Len(schedules)

\* C22: every invocation of compare_all_schedules eventually returns a
\* result list to its caller, whatever the page does.
C22_ReturnsResultList == <>(pc = "done" /\ outcome = "returned")

-----------------------------------------------------------------------------
(* The web application (src/app.py) and the background run                   *)
(* (src/scheduler.py).                                                       *)
(*                                                                           *)
(* Every request and every background run has its own database session: a   *)
(* DELETE acts on the rows committed when it starts, the rows added to the  *)
(* session are inserted by commit, and nothing of a transaction shows to    *)
(* the others before its commit.  A DELETE that meets a row another         *)
(* transaction has deleted and not yet committed waits for the end of that  *)
(* transaction, and then leaves alone the rows it did not see when it       *)
(* started (read committed).  compare_all_schedules is a step that returns  *)
(* a list or raises.  A row carries the scrape that produced it.            *)

\* Tour.query.all(): the tours of the Tour table.
tours == <<"vaticano", "coliseo">>

\* The dates a run goes through (line 71), and a request can name.
dates == <<"d1", "d2">>

\* The threads /api/scrape/manual can start.
RunIds == {1, 2}

\* The name a row carries for the scrape of a thread.
RunName(r) == IF r = 1 THEN "run1" ELSE "run2"

\* The rows stored before any scrape of the model: one per (tour, date).
StoredBefore ==
    {[tour_id |-> tours[t], date |-> dates[d], time |-> "09:00", by |-> "before"] :
        t \in 1..Len(tours), d \in 1..Len(dates)}

\* What compare_all_schedules can return: a sentinel, or one result per slot.
ResultLists ==
    {<<[time |-> "N/A"]>>, <<[time |-> "09:00"], [time |-> "11:30"]>>}

\* if result.get('time') and result['time'] != 'N/A'
Storable(rs) ==
    {rs[i] : i \in {k \in 1..Len(rs) : rs[k].time # "" /\ rs[k].time # "N/A"}}

\* The Schedule objects added to the session for the results of a scrape.
NewRows(tour_id, date, rs, by) ==
    {[tour_id |-> tour_id, date |-> date, time |-> r.time, by |-> by] :
        r \in Storable(rs)}

\* Schedule.query.filter_by(tour_id=..., date=...): the committed rows of a key.
RowsOf(table, tour_id, date) ==
    {x \in table : x.tour_id = tour_id /\ x.date = date}

\* db.session.commit() of a transaction that deleted and added rows.
Commit(table, deleted, added) == (table \ deleted) \cup added

\* Mutant of Rollback: the DELETE of the failed transaction stays applied.
RollbackKeepsDelete(table, deleted) == table \ deleted

\* db.session.rollback(): the table as committed.
Rollback(table, deleted) == table

\* ScrapeLog(status='running'): tours_scraped and dates_scraped default to 0.
NewLog == [status |-> "running", tours_scraped |-> 0, dates_scraped |-> 0,
           error_message |-> ""]

\* A thread that has not been started.  commits, failures and outer are
\* history: the saves committed, the dates that raised, a fault outside the
\* loop over the dates.
Unstarted ==
    [pc |-> "unstarted", log |-> 0, tour |-> 1, date |-> 1, results |-> <<>>,
     deleted |-> {}, behind |-> {}, total_tours |-> 0, total_dates |-> 0,
     commits |-> 0, failures |-> 0, outer |-> FALSE]

\* No request to /api/scrape is being served.  saved is history: the last
\* request committed its rows.
NoRequest ==
    [pc |-> "idle", url |-> "", date |-> "", results |-> <<>>, deleted |-> {},
     behind |-> {}, saved |-> FALSE]

\* Variables the web application does not use.
scraper == <<pc, exc, invocation, history, ret, chatIdx, sdRet, calendar, frame,
             extractor>>

AppInit ==
    /\ pc = "app"
    /\ NoInvocation
    /\ NoExtraction
    /\ schedule_rows = StoredBefore
    /\ scrape_logs = <<>>
    /\ run = [r \in RunIds |-> Unstarted]
    /\ api = NoRequest

\* The transaction in progress of a session, by the name its rows carry.
Transaction(name) ==
    IF name = "api" THEN api
    ELSE run[CHOOSE r \in RunIds : RunName(r) = name]

Sessions == {RunName(r) : r \in RunIds} \cup {"api"}

\* The sessions whose uncommitted DELETE holds one of the rows.
Holders(me, rows) ==
    {o \in Sessions \ {me} :
        Transaction(o).pc = "save" /\ Transaction(o).deleted \cap rows # {}}

\* The DELETE of the session still waits for a transaction that held one of
\* its rows first.
Waiting(me) ==
    \E o \in Transaction(me).behind :
        /\ Transaction(o).pc = "save"
        /\ Transaction(o).deleted \cap Transaction(me).deleted # {}
        /\ me \notin Transaction(o).behind

\* manual_scrape (app.py 244-257): the thread is started whatever the state
\* of the runs started before.
ManualScrape(r) ==
    /\ run[r].pc = "unstarted"
    /\ \A q \in RunIds : q < r => run[q].pc # "unstarted"
    /\ run' = [run EXCEPT ![r].pc = "create_log"]
    /\ UNCHANGED <<schedule_rows, scrape_logs, api, scraper>>

\* scheduler.py 58-74: the log is created and committed, then
\* ensure_tours_exist and Tour.query.all() query the database, which can fail.
CreateLog(r) ==
    /\ run[r].pc = "create_log"
    /\ scrape_logs' = Append(scrape_logs, NewLog)
    /\ \/ run' = [run EXCEPT ![r].log = Len(scrape_logs) + 1,
                             ![r].tour = 1, ![r].date = 1, ![r].total_tours = 0,
                             ![r].total_dates = 0, ![r].pc = "scrape"]
       \/ run' = [run EXCEPT ![r].log = Len(scrape_logs) + 1,
                             ![r].outer = TRUE, ![r].pc = "outer_except"]
    /\ UNCHANGED <<schedule_rows, api, scraper>>

\* scheduler.py 79, 111, 76: the next date, else the next tour, else the end
\* of the loops.
NextDate(th) ==
    IF th.date < Len(dates)
    THEN [th EXCEPT !.date = @ + 1, !.pc = "scrape"]
    ELSE IF th.tour < Len(tours)
    THEN [th EXCEPT !.total_tours = @ + 1, !.tour = @ + 1, !.date = 1,
                    !.pc = "scrape"]
    ELSE [th EXCEPT !.total_tours = @ + 1, !.pc = "finish"]

\* scheduler.py 107-109: the handler of the date that raised; the loop goes on.
Excepted(th) ==
    NextDate([th EXCEPT !.results = <<>>, !.deleted = {}, !.behind = {},
                        !.failures = @ + 1])

\* scheduler.py 80-88: asyncio.run(compare_all_schedules(tour.url, date_str))
\* returns a list or raises; then the rows of the key are deleted in the
\* transaction of the thread.
RunScrape(r) ==
    /\ run[r].pc = "scrape"
    /\ \/ /\ \E rs \in ResultLists :
                run' = [run EXCEPT
                          ![r].results = rs,
                          ![r].deleted = RowsOf(schedule_rows, tours[run[r].tour],
                                                dates[run[r].date]),
                          ![r].behind =
                              Holders(RunName(r),
                                      RowsOf(schedule_rows, tours[run[r].tour],
                                             dates[run[r].date])),
                          ![r].pc = "save"]
          /\ UNCHANGED schedule_rows
       \/ /\ run' = [run EXCEPT ![r] = Excepted(@)]
          /\ schedule_rows' = Rollback(schedule_rows, run[r].deleted)
    /\ UNCHANGED <<scrape_logs, api, scraper>>

\* scheduler.py 91-105: the rows are added and the transaction committed; a
\* commit that raises is handled at lines 107-109.
RunSave(r) ==
    /\ run[r].pc = "save"
    /\ \/ /\ ~Waiting(RunName(r))
          /\ schedule_rows' =
                Commit(schedule_rows, run[r].deleted,
                       NewRows(tours[run[r].tour], dates[run[r].date],
                               run[r].results, RunName(r)))
          /\ run' = [run EXCEPT
                       ![r] = NextDate([@ EXCEPT !.results = <<>>,
                                                 !.deleted = {},
                                                 !.behind = {},
                                                 !.total_dates = @ + 1,
                                                 !.commits = @ + 1])]
       \/ /\ run' = [run EXCEPT ![r] = Excepted(@)]
          /\ schedule_rows' = Rollback(schedule_rows, run[r].deleted)
    /\ UNCHANGED <<scrape_logs, api, scraper>>

\* scheduler.py 113-118
RunFinish(r) ==
    /\ run[r].pc = "finish"
    /\ scrape_logs' = [scrape_logs EXCEPT
                         ![run[r].log].status = "success",
                         ![run[r].log].tours_scraped = run[r].total_tours,
                         ![run[r].log].dates_scraped = run[r].total_dates]
    /\ run' = [run EXCEPT ![r].pc = "done"]
    /\ UNCHANGED <<schedule_rows, api, scraper>>

\* scheduler.py 122-126
RunFailed(r) ==
    /\ run[r].pc = "outer_except"
    /\ scrape_logs' = [scrape_logs EXCEPT
                         ![run[r].log].status = "failed",
                         ![run[r].log].error_message = "exception"]
    /\ run' = [run EXCEPT ![r].pc = "done"]
    /\ UNCHANGED <<schedule_rows, api, scraper>>

\* ScrapeLog.query.order_by(ScrapeLog.id.desc()).first()
Latest == Len(scrape_logs)

\* scrape_status (app.py 260-278), when more than 30 minutes have elapsed
\* since the latest log started.
ScrapeStatus ==
    /\ Latest > 0
    /\ scrape_logs[Latest].status = "running"
    /\ scrape_logs' = [scrape_logs EXCEPT ![Latest].status = "failed",
                                          ![Latest].error_message = "timeout"]
    /\ UNCHANGED <<schedule_rows, run, api, scraper>>

\* reset_scrape_status (app.py 293-305)
ResetScrapeStatus ==
    /\ Latest > 0
    /\ scrape_logs[Latest].status = "running"
    /\ scrape_logs' = [scrape_logs EXCEPT ![Latest].status = "failed",
                                          ![Latest].error_message = "reset"]
    /\ UNCHANGED <<schedule_rows, run, api, scraper>>

\* The urls a request can name: the first tour of the Tour table and a url
\* the table does not hold.
Urls == {tours[1], "other"}

\* scrape (app.py 59-86, 106-113): a request with a url and a date; the
\* scrape, which returns a list or raises; the lookup of the tour; the
\* deletion of the rows of the key in the transaction of the request.
ApiScrape ==
    /\ api.pc = "idle"
    /\ \E url \in Urls, d \in 1..Len(dates) :
          \/ /\ \E rs \in ResultLists :
                   api' = IF url # "other" /\ rs # <<>>
                          THEN [pc |-> "save", url |-> url, date |-> dates[d],
                                results |-> rs,
                                deleted |-> RowsOf(schedule_rows, url, dates[d]),
                                behind |->
                                    Holders("api",
                                            RowsOf(schedule_rows, url, dates[d])),
                                saved |-> FALSE]
                          ELSE NoRequest
             /\ UNCHANGED schedule_rows
          \/ /\ api' = NoRequest
             /\ schedule_rows' = Rollback(schedule_rows, api.deleted)
    /\ UNCHANGED <<scrape_logs, run, scraper>>

\* app.py 88-105, 109: the rows are added and the transaction committed; a
\* commit that raises is handled at lines 111-113.
ApiSave ==
    /\ api.pc = "save"
    /\ \/ /\ ~Waiting("api")
          /\ schedule_rows' =
                Commit(schedule_rows, api.deleted,
                       NewRows(api.url, api.date, api.results, "api"))
          /\ api' = [NoRequest EXCEPT !.saved = TRUE]
       \/ /\ schedule_rows' = Rollback(schedule_rows, api.deleted)
          /\ api' = NoRequest
    /\ UNCHANGED <<scrape_logs, run, scraper>>

\* A step of the thread of a run.
RunStep(r) ==
    \/ ManualScrape(r) \/ CreateLog(r)
    \/ RunScrape(r) \/ RunSave(r)
    \/ RunFinish(r) \/ RunFailed(r)

\* One run in the background, the status endpoints and the requests to
\* /api/scrape.
AppNext ==
    \/ RunStep(1)
    \/ ScrapeStatus \/ ResetScrapeStatus
    \/ ApiScrape \/ ApiSave

SpecApp == AppInit /\ [][AppNext]_vars

\* Every thread /api/scrape/manual can start, with no other request.
RunsNext == \E r \in RunIds : RunStep(r)

SpecRuns == AppInit /\ [][RunsNext]_vars

-----------------------------------------------------------------------------
(* C23 - C26 *)

\* The step in which the thread of a run commits the save of a date.
RunSaved(r) == run[r].pc = "save" /\ run'[r].commits = run[r].commits + 1

\* The step in which the request to /api/scrape commits its save.
ApiSaved == api.pc = "save" /\ api'.saved

\* The rows of the key are exactly the storable results of the scrape, and
\* the rows of the other keys are as they were.
SavedExactly(tour_id, date, rs, by) ==
    /\ RowsOf(schedule_rows', tour_id, date) =
           {[tour_id |-> tour_id, date |-> date, time |-> rs[i].time, by |-> by] :
               i \in {k \in 1..Len(rs) : rs[k].time # "N/A"}}
    /\ schedule_rows' \ RowsOf(schedule_rows', tour_id, date)
           = schedule_rows \ RowsOf(schedule_rows, tour_id, date)
    /\ \A x \in schedule_rows' : x.time # "N/A"

\* C23: the step that commits the save of a scrape of (tour, date), by the
\* /api/scrape handler or by run_daily_scrape, leaves as rows of that key
\* exactly the results of that scrape whose time is not "N/A" (the rows
\* stored before are replaced, no sentinel is stored) and leaves the rows
\* of every other key unchanged.
C23_SaveReplacesKey ==
    [][/\ \A r \in RunIds :
             RunSaved(r) => SavedExactly(tours[run[r].tour], dates[run[r].date],
                                         run[r].results, RunName(r))
       /\ ApiSaved => SavedExactly(api.url, api.date, api.results, "api")]_vars

Final == {"success", "failed"}

\* C24: a ScrapeLog record is created in status running, its status is
\* always running, success or failed, and once it is success or failed it
\* never changes again.
C24_StatusFinal ==
    [][/\ Len(scrape_logs') >= Len(scrape_logs)
       /\ \A i \in 1..Len(scrape_logs') :
             IF i > Len(scrape_logs)
             THEN scrape_logs'[i].status = "running"
             ELSE /\ scrape_logs'[i].status \in Final \cup {"running"}
                  /\ scrape_logs[i].status \in Final
                         => scrape_logs'[i].status = scrape_logs[i].status]_vars

\* The step in which a date of the run raises, while scraping or saving.
DateRaised(r) == run'[r].failures = run[r].failures + 1

\* The loop of the run has moved to the next date, else to the first date of
\* the next tour, else past the last tour.
MovedOn(r) ==
    IF run[r].date < Len(dates)
    THEN run'[r].pc = "scrape" /\ run'[r].tour = run[r].tour
                               /\ run'[r].date = run[r].date + 1
    ELSE IF run[r].tour < Len(tours)
    THEN run'[r].pc = "scrape" /\ run'[r].tour = run[r].tour + 1
                               /\ run'[r].date = 1
    ELSE run'[r].pc = "finish"

\* C25: in run_daily_scrape, the step in which a date raises leaves every
\* stored row as it was and moves the loop on to the next date or tour; the
\* count of dates is always the number of committed saves; and a run that
\* met no fault outside the loop over the dates ends with its log in status
\* success and dates_scraped the number of committed saves.
C25_DateFailureConfined ==
    /\ [][\A r \in RunIds :
             DateRaised(r) => (schedule_rows' = schedule_rows /\ MovedOn(r))]_vars
    /\ [](\A r \in RunIds :
             /\ run[r].total_dates = run[r].commits
             /\ (run[r].pc = "done" /\ ~run[r].outer) =>
                    /\ scrape_logs[run[r].log].status = "success"
                    /\ scrape_logs[run[r].log].dates_scraped = run[r].commits)

\* A run has ended with status success after a date raised and another was
\* saved; the date that raised is not counted.
C25_Witness ==
    /\ run[1].pc = "done"
    /\ run[1].failures >= 1
    /\ run[1].commits >= 1
    /\ scrape_logs[run[1].log].status = "success"
    /\ scrape_logs[run[1].log].dates_scraped < Len(tours) * Len(dates)

\* The threads of run_daily_scrape still executing whose log is running.
InProgress ==
    {r \in RunIds : /\ run[r].pc \notin {"unstarted", "create_log", "done"}
                    /\ scrape_logs[run[r].log].status = "running"}

\* C26: at most one run is in progress at a time, and no two runs are
\* between the deletion and the commit of the rows of the same (tour, date).
C26_OneRunAtATime ==
    /\ Cardinality(InProgress) <= 1
    /\ \A r, q \in RunIds :
          (r # q /\ run[r].pc = "save" /\ run[q].pc = "save")
              => <<run[r].tour, run[r].date>> # <<run[q].tour, run[q].date>>


====
